---- MODULE Spec2Model ----
(***************************************************************************)
(* Model of app.py, the SDG3 diet and exercise recommender: the            *)
(* calculation helpers (calc_bmi, bmi_category, bmr_mifflin,               *)
(* activity_multiplier, calorie_target, macro_split, sample_meal_plan,     *)
(* exercise_plan) and the script run that a form submission triggers.      *)
(*                                                                         *)
(* Numbers.  The form steps weight and height by 0.1, so both are held in  *)
(* tenths (DU).  Energy values are held in 1/KU kcal; KU is chosen so that *)
(* 6.25*height and bmr*mult are exact.  Multipliers are held in            *)
(* thousandths (MU), the protein ratio in tenths (PU).  Quotients are      *)
(* exact rationals [n, d]; round() is Python's round-half-to-even.  The    *)
(* products int(calories * 0.35), ... of sample_meal_plan are computed in  *)
(* IEEE-754 binary64, bit by bit, because truncation exposes the rounding  *)
(* of the double product.                                                  *)
(*                                                                         *)
(* Elsewhere the float arithmetic is taken as exact.  On form values the   *)
(* two agree except where carb_g is an exact tie k + 1/2: there the float  *)
(* error decides between k and k + 1, and the model takes the even one.    *)
(* Statements about rounding below accept either neighbour at a tie.       *)
(***************************************************************************)
EXTENDS Integers, Sequences, FiniteSets, TLC

VARIABLES form, submitted, out, snap, call

vars == <<form, submitted, out, snap, call>>

-----------------------------------------------------------------------------
(* Units *)

\* weight, height: 1/DU kg, cm (number_input step 0.1)
DU == 10
\* energy: 1/KU kcal (6.25 = 50/8, multipliers in thousandths)
KU == 8000
\* activity multiplier: 1/MU
MU == 1000
\* protein ratio: 1/PU g per kg (1.6, 1.2)
PU == 10

Kcal(k) == k * KU

Max(a, b) == IF a >= b THEN a ELSE b

\* Python's None
None == [absent |-> TRUE]

\* no script run has produced outputs
NoRun == [absent |-> TRUE]

\* the outcome of a float division whose divisor is zero
ZeroDivisionError == [raised |-> "ZeroDivisionError"]

\* n / d, kept as the rational [n, d]
Divide(n, d) == IF d = 0 THEN ZeroDivisionError ELSE [n |-> n, d |-> d]

\* Python round(): nearest integer, ties to the even one (d > 0)
RoundHalfEven(n, d) ==
    LET q == n \div d
        r == n % d
    IN  IF 2 * r < d THEN q
        ELSE IF 2 * r > d THEN q + 1
        ELSE IF q % 2 = 0 THEN q ELSE q + 1

\* str.lower() on the gender strings
Lower(s) ==
    CASE s = "Male" -> "male"
      [] s = "MALE" -> "male"
      [] s = "Female" -> "female"
      [] s = "Other" -> "other"
      [] OTHER -> s

-----------------------------------------------------------------------------
(* Helper functions of app.py *)

\* weight, height in tenths; the result is the rational n/d
\* variant: the guard lets a zero height through
calc_bmi_StrictGuard(weight_kg, height_cm) ==
    IF height_cm < 0
    THEN None
    ELSE Divide(weight_kg * 100 * 100 * DU, height_cm * height_cm)

calc_bmi(weight_kg, height_cm) ==
    IF height_cm <= 0
    THEN None
    ELSE Divide(weight_kg * 100 * 100 * DU, height_cm * height_cm)

\* q < a/b for a rational q = [n, d] with d > 0, b > 0
Below(q, a, b) == q.n * b < a * q.d

\* q <= a/b
AtMost(q, a, b) == q.n * b <= a * q.d

\* variant: the boundary values fall in the lower bracket
bmi_category_Inclusive(bmi) ==
    IF bmi = None THEN "Unknown"
    ELSE IF AtMost(bmi, 37, 2) THEN "Underweight"
    ELSE IF AtMost(bmi, 25, 1) THEN "Normal weight"
    ELSE IF AtMost(bmi, 30, 1) THEN "Overweight"
    ELSE "Obesity"

bmi_category(bmi) ==
    IF bmi = None THEN "Unknown"
    ELSE IF Below(bmi, 37, 2) THEN "Underweight"
    ELSE IF Below(bmi, 25, 1) THEN "Normal weight"
    ELSE IF Below(bmi, 30, 1) THEN "Overweight"
    ELSE "Obesity"

\* variant: the two branches are exchanged
bmr_mifflin_Swapped(weight, height, age, gender) ==
    LET w10 == 10 * weight * (KU \div DU)
        h625 == 625 * height * (KU \div (100 * DU))
    IN  IF Lower(gender) = "male"
        THEN w10 + h625 - Kcal(5 * age) - Kcal(161)
        ELSE w10 + h625 - Kcal(5 * age) + Kcal(5)

bmr_mifflin(weight, height, age, gender) ==
    LET w10 == 10 * weight * (KU \div DU)                \* 10*weight
        h625 == 625 * height * (KU \div (100 * DU))      \* 6.25*height
    IN  IF Lower(gender) = "male"
        THEN w10 + h625 - Kcal(5 * age) + Kcal(5)
        ELSE w10 + h625 - Kcal(5 * age) - Kcal(161)

\* variant: the last key is spelled with an underscore
activity_multiplier_Underscore(level) ==
    CASE level = "sedentary" -> 1200
      [] level = "light" -> 1375
      [] level = "moderate" -> 1550
      [] level = "active" -> 1725
      [] level = "very_active" -> 1900
      [] OTHER -> 1200

activity_multiplier(level) ==
    CASE level = "sedentary" -> 1200
      [] level = "light" -> 1375
      [] level = "moderate" -> 1550
      [] level = "active" -> 1725
      [] level = "very active" -> 1900
      [] OTHER -> 1200

\* variant: the product of the previous run is reused
Times_Cached(bmr, mult) == IF out # NoRun THEN out.tdee ELSE (bmr \div MU) * mult

\* bmr * mult; every value of bmr_mifflin is a multiple of MU
Times(bmr, mult) == (bmr \div MU) * mult

\* variant: no floor under the deficit
calorie_target_NoFloor(tdee, goal) ==
    IF goal = "lose" THEN tdee - Kcal(500)
    ELSE IF goal = "gain" THEN tdee + Kcal(300)
    ELSE tdee

\* variant: a lower floor
calorie_target_LowFloor(tdee, goal) ==
    IF goal = "lose" THEN Max(Kcal(1000), tdee - Kcal(500))
    ELSE IF goal = "gain" THEN tdee + Kcal(300)
    ELSE tdee

calorie_target(tdee, goal) ==
    IF goal = "lose" THEN Max(Kcal(1200), tdee - Kcal(500))
    ELSE IF goal = "gain" THEN tdee + Kcal(300)
    ELSE tdee

\* variant: carb_g is not floored at 0
macro_split_NoFloor(calories, protein_g_per_kg, weight) ==
    LET protein_n == protein_g_per_kg * weight
        protein_cals == protein_n * 4 * (KU \div 10)
        fat_cals == calories * 3
        carb_cals == 10 * calories - protein_cals - fat_cals
    IN  [protein_g |-> RoundHalfEven(protein_n, PU * DU),
         fat_g     |-> RoundHalfEven(fat_cals, 9 * 10 * KU),
         carb_g    |-> RoundHalfEven(carb_cals, 4 * 10 * KU)]

\* calories in 1/KU kcal, protein_g_per_kg in tenths, weight in tenths
macro_split(calories, protein_g_per_kg, weight) ==
    LET protein_n == protein_g_per_kg * weight        \* protein_g = protein_n / (PU*DU)
        protein_cals == protein_n * 4 * (KU \div 10)  \* over 10*KU
        fat_cals == calories * 3                      \* over 10*KU
        carb_cals == 10 * calories - protein_cals - fat_cals  \* over 10*KU
    IN  [protein_g |-> RoundHalfEven(protein_n, PU * DU),
         fat_g     |-> RoundHalfEven(fat_cals, 9 * 10 * KU),
         carb_g    |-> IF carb_cals <= 0 THEN 0
                       ELSE RoundHalfEven(carb_cals, 4 * 10 * KU)]

-----------------------------------------------------------------------------
(* IEEE-754 binary64, for int(calories * 0.20) and its siblings.  A double *)
(* is its 53-bit significand, held as four 16-bit limbs (least significant *)
(* first), and the exponent e with value = significand * 2^-e.             *)

Precision == 53
LimbBits == 16
Limb == 2^LimbBits

RECURSIVE SkipZeros(_, _, _)
\* number of leading zero bits of the binary fraction r/den, and the
\* remainder in front of the first one bit
SkipZeros(r, den, z) ==
    IF 2 * r >= den THEN [z |-> z, r |-> r]
    ELSE SkipZeros(2 * r, den, z + 1)

RECURSIVE Expand(_, _, _, _)
\* the next k bits of the binary fraction r/den, most significant first,
\* followed by the remainder
Expand(r, den, k, acc) ==
    IF k = 0 THEN [bits |-> acc, r |-> r]
    ELSE LET b == IF 2 * r >= den THEN 1 ELSE 0
         IN  Expand(2 * r - b * den, den, k - 1, Append(acc, b))

Reverse(s) == [i \in 1..Len(s) |-> s[Len(s) + 1 - i]]

RECURSIVE Increment(_)
\* bits, least significant first, plus one
Increment(bits) ==
    IF bits = <<>> THEN <<1>>
    ELSE IF Head(bits) = 0 THEN <<1>> \o Tail(bits)
    ELSE <<0>> \o Increment(Tail(bits))

RECURSIVE BitsToNat(_)
BitsToNat(bits) ==
    IF bits = <<>> THEN 0 ELSE Head(bits) + 2 * BitsToNat(Tail(bits))

\* bits, least significant first, as 16-bit limbs
Pack(bits) ==
    [i \in 1..((Len(bits) + LimbBits - 1) \div LimbBits) |->
        BitsToNat(SubSeq(bits, LimbBits * (i - 1) + 1,
                         IF LimbBits * i < Len(bits) THEN LimbBits * i ELSE Len(bits)))]

\* the double nearest to the literal num/den, 0 < num/den < 1
Double(num, den) ==
    LET lead == SkipZeros(num, den, 0)
        sig  == Expand(lead.r, den, Precision, <<>>)
        grd  == Expand(sig.r, den, 1, <<>>)
        up   == grd.bits[1] = 1 /\ (grd.r # 0 \/ sig.bits[Precision] = 1)
        m    == IF up THEN Increment(Reverse(sig.bits)) ELSE Reverse(sig.bits)
    IN  [sig |-> Pack(m), e |-> lead.z + Precision]

RECURSIVE MulLimbs(_, _, _)
\* c times the number whose limbs are given, 0 < c < 2^15
MulLimbs(limbs, c, carry) ==
    IF limbs = <<>>
    THEN IF carry = 0 THEN <<>> ELSE <<carry>>
    ELSE LET t == c * Head(limbs) + carry
         IN  <<t % Limb>> \o MulLimbs(Tail(limbs), c, t \div Limb)

RECURSIVE BitLen(_)
BitLen(x) == IF x = 0 THEN 0 ELSE 1 + BitLen(x \div 2)

\* the integer part of p * 2^-e after p is rounded to 53 bits, ties to
\* even; p has four or five limbs and 48 < e < 64
Truncated(p, e) ==
    LET n      == Len(p)
        drop   == LimbBits * (n - 1) + BitLen(p[n]) - Precision   \* bits rounded away, < 16
        guard  == drop > 0 /\ (p[1] \div 2^(drop - 1)) % 2 = 1
        sticky == drop > 1 /\ p[1] % 2^(drop - 1) # 0
        odd    == (p[1] \div 2^drop) % 2 = 1
        up     == guard /\ (sticky \/ odd)
        frac   == e - 3 * LimbBits                                \* fraction bits in p[4]
        ripple == /\ p[1] \div 2^drop = 2^(LimbBits - drop) - 1   \* bits drop..e-1 all set
                  /\ p[2] = Limb - 1
                  /\ p[3] = Limb - 1
                  /\ p[4] % 2^frac = 2^frac - 1
        whole  == p[4] \div 2^frac
                  + (IF n > 4 THEN p[5] * 2^(LimbBits - frac) ELSE 0)
    IN  whole + (IF up /\ ripple THEN 1 ELSE 0)

\* int(c * f) for an int 0 <= c < 2^15 and a double f: the exact product
\* is rounded to a double, then truncated
IntOfProduct(c, f) ==
    IF c = 0 THEN 0 ELSE Truncated(MulLimbs(f.sig, c, 0), f.e)

D020 == Double(20, 100)
D030 == Double(30, 100)
D015 == Double(15, 100)
D035 == Double(35, 100)

sample_meal_plan(calories) ==
    [Breakfast |-> IntOfProduct(calories, D020),
     Lunch     |-> IntOfProduct(calories, D030),
     Snack     |-> IntOfProduct(calories, D015),
     Dinner    |-> IntOfProduct(calories, D035)]

exercise_plan(bmi, level) ==
    [cardio   |-> IF level \in {"sedentary", "light"} THEN "start"
                  ELSE IF level = "moderate" THEN "maintain"
                  ELSE "varied",
     strength |-> IF bmi = None THEN "general"
                  ELSE IF Below(bmi, 37, 2) THEN "build"
                  ELSE IF Below(bmi, 25, 1) THEN "balanced"
                  ELSE "low-impact",
     mobility |-> "mobility"]

-----------------------------------------------------------------------------
(* The form (lines 76-95) *)

MinWeightKg == 20
MaxWeightKg == 300
MinHeightCm == 80
MaxHeightCm == 250
MinAge == 10
MaxAge == 100
MinCups == 0
MaxCups == 20

\* spacing of the sampled widget values
WeightStride == 700
HeightStride == 850
AgeStride == 45
CupStride == 20

Sampled(lo, hi, stride) == {v \in lo..hi : (v - lo) % stride = 0} \cup {hi}

Weights == Sampled(MinWeightKg * DU, MaxWeightKg * DU, WeightStride) \cup {700, 375}
Heights == Sampled(MinHeightCm * DU, MaxHeightCm * DU, HeightStride) \cup {1700, 1750}
Ages    == Sampled(MinAge, MaxAge, AgeStride) \cup {25}
Cups    == Sampled(MinCups, MaxCups, CupStride) \cup {6}
Genders == {"male", "female", "other"}
Levels  == {"sedentary", "light", "moderate", "active", "very active"}
Goals   == {"maintain", "lose", "gain"}

Widgets == [weight |-> Weights, height |-> Heights, age |-> Ages, water_cups |-> Cups,
            gender |-> Genders, exercise_level |-> Levels, goal |-> Goals]

\* a narrower choice of widget values, for sessions whose runs are compared
FewWidgets == [weight |-> {700, 375}, height |-> {1700, 1000}, age |-> {25},
               water_cups |-> {6}, gender |-> Genders, exercise_level |-> Levels,
               goal |-> Goals]

Defaults == [weight |-> 700, age |-> 25, water_cups |-> 6, height |-> 1700,
             gender |-> "male", exercise_level |-> "light", goal |-> "maintain"]

UserInputs == [weight : Weights, height : Heights, age : Ages, water_cups : Cups,
               gender : Genders, exercise_level : Levels, goal : Goals]

-----------------------------------------------------------------------------
(* One run of the script on a submitted form (lines 103-120, 150-154, 180, 221) *)

\* variant: the higher ratio for lose only
protein_ratio_GainLow(goal) ==
    IF goal = "lose" THEN 16
    ELSE IF goal = "gain" THEN 12
    ELSE 12

\* protein recommendation based on goal, in tenths of g/kg
protein_ratio(goal) ==
    IF goal = "lose" THEN 16
    ELSE IF goal = "gain" THEN 16
    ELSE 12

Calculations(in) ==
    LET bmi      == calc_bmi(in.weight, in.height)
        category == bmi_category(bmi)
        bmr      == bmr_mifflin(in.weight, in.height, in.age,
                                IF in.gender \in {"male", "female"} THEN in.gender
                                ELSE "female")
        mult     == activity_multiplier(in.exercise_level)
        tdee     == Times(bmr, mult)
        cal_target == calorie_target(tdee, in.goal)
        protein_g_per_kg == protein_ratio(in.goal)
        macros   == macro_split(cal_target, protein_g_per_kg, in.weight)
        recommended_cups == RoundHalfEven(30 * in.weight, 250 * DU)
    IN  [bmi |-> bmi, category |-> category, bmr |-> bmr, mult |-> mult,
         tdee |-> tdee, cal_target |-> cal_target,
         protein_g_per_kg |-> protein_g_per_kg, macros |-> macros,
         recommended_cups |-> recommended_cups,
         water_low |-> in.water_cups < recommended_cups,
         plan |-> sample_meal_plan(RoundHalfEven(cal_target, KU)),
         ex_plan |-> exercise_plan(bmi, in.exercise_level)]

\* the forms that differ from the current one in at most one widget
Edits(w) ==
    {[form EXCEPT !.weight = v] : v \in w.weight}
    \cup {[form EXCEPT !.height = v] : v \in w.height}
    \cup {[form EXCEPT !.age = v] : v \in w.age}
    \cup {[form EXCEPT !.water_cups = v] : v \in w.water_cups}
    \cup {[form EXCEPT !.gender = v] : v \in w.gender}
    \cup {[form EXCEPT !.exercise_level = v] : v \in w.exercise_level}
    \cup {[form EXCEPT !.goal = v] : v \in w.goal}

NoCall == [fn |-> "", args |-> <<>>, done |-> FALSE, ret |-> None]

Init ==
    /\ form = Defaults
    /\ submitted = FALSE
    /\ out = NoRun
    /\ snap = NoRun
    /\ call = NoCall

\* "Get recommendation": the script runs past st.stop() on the form's values
Submit(in) ==
    /\ form' = in
    /\ submitted' = TRUE
    /\ out' = Calculations(in)
    /\ snap' = IF snap = NoRun THEN snap
               ELSE [snap EXCEPT !.other = @ \/ in # snap.in, !.again = TRUE]
    /\ UNCHANGED call

\* a fresh page load: the script stops at line 99
Reload ==
    /\ form' = Defaults
    /\ submitted' = FALSE
    /\ out' = NoRun
    /\ UNCHANGED <<snap, call>>

\* history: keep the submitted form and what the run produced; again and
\* other tell whether a later run, and one on another input, has followed
Remember ==
    /\ submitted
    /\ snap' = [in |-> form, out |-> out, again |-> FALSE, other |-> FALSE]
    /\ UNCHANGED <<form, submitted, out, call>>

Next ==
    \/ \E in \in Edits(Widgets) : Submit(in)
    \/ Reload

Spec == Init /\ [][Next]_vars

NextRuns ==
    \/ \E in \in Edits(FewWidgets) : Submit(in)
    \/ Reload
    \/ Remember

SpecRuns == Init /\ [][NextRuns]_vars

-----------------------------------------------------------------------------
(* The helpers called on their own: Init draws a pending call, the action  *)
(* of the called function applies it.                                      *)

BmiStride == 7
TdeeStride == 130
CalStride == 450
MealStride == 20

BmiArgs ==
    {None}
    \cup {[n |-> k, d |-> 10] : k \in Sampled(0, 600, BmiStride)
                                      \cup {184, 185, 186, 249, 250, 251, 299, 300, 301}}
    \cup {[n |-> k, d |-> 100] : k \in {1849, 2499, 2999}}

TdeeArgs ==
    {Kcal(k) : k \in Sampled(0, 9000, TdeeStride) \cup {-100, 1200, 1400, 1700, 2000}}
    \cup {Kcal(1700) - 1, Kcal(1700) + 1}

GoalArgs == Goals \cup {"cut", "Lose", ""}
GenderArgs == Genders \cup {"Male", "MALE", "Female", ""}
LevelArgs == Levels \cup {"very_active", "Very Active", "unknown", ""}
CalorieArgs == {Kcal(k) : k \in Sampled(0, 9000, CalStride) \cup {15, 45, 500, 2000}}
MealArgs == Sampled(0, 9500, MealStride) \cup {180, 1400, 2680}
FewInputs == [weight : FewWidgets.weight, height : FewWidgets.height,
              age : FewWidgets.age, water_cups : FewWidgets.water_cups,
              gender : Genders, exercise_level : Levels, goal : Goals]

Pending(fn, argset) == {[fn |-> fn, args |-> a, done |-> FALSE, ret |-> None] : a \in argset}

Calls ==
    Pending("calc_bmi", (Weights \cup {-700, 0}) \X (Heights \cup {-1750, -1, 0, 1, 2000}))
    \cup Pending("bmi_category", {<<b>> : b \in BmiArgs})
    \cup Pending("bmr_mifflin", Weights \X Heights \X Ages \X GenderArgs)
    \cup Pending("activity_multiplier", {<<l>> : l \in LevelArgs})
    \cup Pending("calorie_target", TdeeArgs \X GoalArgs)
    \cup Pending("macro_split", CalorieArgs \X {0, 12, 16, 25} \X Weights)
    \cup Pending("sample_meal_plan", {<<c>> : c \in MealArgs})
    \cup Pending("calculations", {<<in>> : in \in FewInputs})

Return(fn, value) ==
    /\ call.fn = fn
    /\ ~call.done
    /\ call' = [call EXCEPT !.done = TRUE, !.ret = value]
    /\ UNCHANGED <<form, submitted, out, snap>>

CallCalcBmi == Return("calc_bmi", calc_bmi(call.args[1], call.args[2]))
CallBmiCategory == Return("bmi_category", bmi_category(call.args[1]))
CallBmrMifflin ==
    Return("bmr_mifflin", bmr_mifflin(call.args[1], call.args[2], call.args[3], call.args[4]))
CallActivityMultiplier == Return("activity_multiplier", activity_multiplier(call.args[1]))
CallCalorieTarget == Return("calorie_target", calorie_target(call.args[1], call.args[2]))
CallMacroSplit ==
    Return("macro_split", macro_split(call.args[1], call.args[2], call.args[3]))
CallSampleMealPlan == Return("sample_meal_plan", sample_meal_plan(call.args[1]))
CallCalculations == Return("calculations", Calculations(call.args[1]))

InitUnit ==
    /\ form = Defaults
    /\ submitted = FALSE
    /\ out = NoRun
    /\ snap = NoRun
    /\ call \in Calls

NextUnit ==
    \/ CallCalcBmi
    \/ CallBmiCategory
    \/ CallBmrMifflin
    \/ CallActivityMultiplier
    \/ CallCalorieTarget
    \/ CallMacroSplit
    \/ CallSampleMealPlan
    \/ CallCalculations

SpecUnit == InitUnit /\ [][NextUnit]_vars

Returned(fn) == call.fn = fn /\ call.done

-----------------------------------------------------------------------------
(* Claims *)

Abs(x) == IF x < 0 THEN -x ELSE x

\* C1: calorie_target(tdee, goal) is max(1200, tdee - 500) for lose,
\* tdee + 300 for gain and tdee for maintain or any other goal;
\* calorie_target(2000, lose) = 1500 and calorie_target(1400, lose) = 1200
Thm_C1 ==
    Returned("calorie_target") =>
        LET tdee == call.args[1]
            goal == call.args[2]
            r    == call.ret
        IN  /\ (goal = "lose") =>
                 (r >= Kcal(1200) /\ r >= tdee - Kcal(500)
                  /\ r \in {Kcal(1200), tdee - Kcal(500)})
            /\ (goal = "gain") => (r = tdee + Kcal(300))
            /\ (goal \notin {"lose", "gain"}) => (r = tdee)
            /\ (tdee = Kcal(2000) /\ goal = "lose") => (r = Kcal(1500))
            /\ (tdee = Kcal(1400) /\ goal = "lose") => (r = Kcal(1200))

\* C1 witness: a lose call on tdee 1400 returns the floor
Wit_C1 ==
    /\ Returned("calorie_target")
    /\ call.args = <<Kcal(1400), "lose">>
    /\ call.ret = Kcal(1200)

\* C2 as stated: after every run, whatever the goal, the calorie target is
\* at least 1200
Cex_C2 == submitted => out.cal_target >= Kcal(1200)

\* C2 amended: the floor of 1200 holds when the goal is lose; for maintain
\* the target is tdee and for gain tdee + 300, whatever their size
Thm_C2 ==
    submitted =>
        /\ (form.goal = "lose") => (out.cal_target >= Kcal(1200))
        /\ (form.goal = "maintain") => (out.cal_target = out.tdee)
        /\ (form.goal = "gain") => (out.cal_target = out.tdee + Kcal(300))

\* C2 witness: a lose run whose deficit falls below 1200 gets 1200
Wit_C2 ==
    /\ submitted
    /\ form.goal = "lose"
    /\ out.tdee - Kcal(500) < Kcal(1200)
    /\ out.cal_target = Kcal(1200)

\* C3 as stated: sedentary 1.2, light 1.375, moderate 1.55, active 1.725,
\* very_active 1.9, an unrecognized level 1.2
Cex_C3 ==
    Returned("activity_multiplier") =>
        LET level == call.args[1]
        IN  /\ (level = "sedentary") => (call.ret = 1200)
            /\ (level = "light") => (call.ret = 1375)
            /\ (level = "moderate") => (call.ret = 1550)
            /\ (level = "active") => (call.ret = 1725)
            /\ (level = "very_active") => (call.ret = 1900)
            /\ (level \in {"unknown", ""}) => (call.ret = 1200)

\* C3 amended: the key of 1.9 is "very active", spelled with a space, which
\* is also the most active level the form offers; every other level,
\* "very_active" included, gives 1.2; a run on "very active" has
\* tdee = bmr x 1.9
Thm_C3 ==
    /\ Returned("activity_multiplier") =>
        LET level == call.args[1]
        IN  /\ (level = "sedentary") => (call.ret = 1200)
            /\ (level = "light") => (call.ret = 1375)
            /\ (level = "moderate") => (call.ret = 1550)
            /\ (level = "active") => (call.ret = 1725)
            /\ (level = "very active") => (call.ret = 1900)
            /\ (level \notin Levels) => (call.ret = 1200)
    /\ Returned("calculations") =>
        ((call.args[1].exercise_level = "very active") =>
            /\ call.ret.mult = 1900
            /\ 10 * call.ret.tdee = 19 * call.ret.bmr)

\* C3 witness: the call on "very active" returns 1.9
Wit_C3 ==
    /\ Returned("activity_multiplier")
    /\ call.args[1] = "very active"
    /\ call.ret = 1900

\* the bracket of a present bmi n/d, with the given name for [18.5, 25)
Bracket(bmi, normal) ==
    IF 10 * bmi.n < 185 * bmi.d THEN "Underweight"
    ELSE IF bmi.n < 25 * bmi.d THEN normal
    ELSE IF bmi.n < 30 * bmi.d THEN "Overweight"
    ELSE "Obesity"

\* C4 as stated: bmi_category returns Underweight below 18.5, Normal on
\* [18.5, 25), Overweight on [25, 30), Obesity from 30, Unknown when absent
Cex_C4 ==
    Returned("bmi_category") =>
        /\ call.ret \in {"Underweight", "Normal", "Overweight", "Obesity", "Unknown"}
        /\ call.ret = IF call.args[1] = None THEN "Unknown"
                      ELSE Bracket(call.args[1], "Normal")

\* C4 amended: the same brackets, the boundary values in the upper one,
\* with the value for [18.5, 25) being "Normal weight"
Thm_C4 ==
    Returned("bmi_category") =>
        /\ call.ret \in {"Underweight", "Normal weight", "Overweight", "Obesity", "Unknown"}
        /\ call.ret = IF call.args[1] = None THEN "Unknown"
                      ELSE Bracket(call.args[1], "Normal weight")

\* C4 witness: a bmi of exactly 18.5 is Normal weight
Wit_C4 ==
    /\ Returned("bmi_category")
    /\ call.args[1] = [n |-> 185, d |-> 10]
    /\ call.ret = "Normal weight"

Mifflin8(weight, height, age, offset) == 8 * weight + 5 * height - 40 * age + 8 * offset

MaleSpellings == {"male", "Male", "MALE"}

\* the formula part shared by the two readings of C6
Formula_C6 ==
    /\ Returned("bmr_mifflin") =>
        LET offset == IF call.args[4] \in MaleSpellings THEN 5 ELSE -161
        IN  8 * call.ret = KU * Mifflin8(call.args[1], call.args[2], call.args[3], offset)
    /\ Returned("calculations") =>
        LET in == call.args[1]
            offset == IF in.gender = "male" THEN 5 ELSE -161
        IN  8 * call.ret.bmr = KU * Mifflin8(in.weight, in.height, in.age, offset)

\* C6 as stated: 10w + 6.25h - 5a + 5 for male, - 161 otherwise, "other"
\* as female in a run, and bmr_mifflin(70, 175, 25, male) = 1733.75
Cex_C6 ==
    /\ Formula_C6
    /\ (Returned("bmr_mifflin") /\ call.args = <<700, 1750, 25, "male">>) =>
         (4 * call.ret = Kcal(6935))

\* C6 amended: the same formulas, and bmr_mifflin(70, 175, 25, male) = 1673.75
Thm_C6 ==
    /\ Formula_C6
    /\ (Returned("bmr_mifflin") /\ call.args = <<700, 1750, 25, "male">>) =>
         (4 * call.ret = Kcal(6695))

\* C6 witness: a run with gender other has the female value
Wit_C6 ==
    /\ Returned("calculations")
    /\ call.args[1].gender = "other"
    /\ 8 * call.ret.bmr = KU * Mifflin8(call.args[1].weight, call.args[1].height,
                                        call.args[1].age, -161)

\* C7: macro_split returns protein_g = ratio x weight, fat_g = 30% of
\* calories / 9 and carb_g = (calories - 4 protein_g - 30% of calories) / 4
\* floored at 0, each as a nearest integer; carb_g is never negative;
\* macro_split(2000, 1.6, 70) = (112, 67, 238)
Thm_C7 ==
    Returned("macro_split") =>
        LET calories == call.args[1]
            ratio    == call.args[2]
            weight   == call.args[3]
            carbs    == 7 * calories - 4 * ratio * weight * (KU \div 10)  \* carb_cals x 10 KU
            m        == call.ret
        IN  /\ 2 * Abs(PU * DU * m.protein_g - ratio * weight) <= PU * DU
            /\ 2 * Abs(30 * KU * m.fat_g - calories) <= 30 * KU
            /\ (carbs <= 0) => (m.carb_g = 0)
            /\ (carbs > 0) => (2 * Abs(40 * KU * m.carb_g - carbs) <= 40 * KU)
            /\ m.carb_g >= 0
            /\ (call.args = <<Kcal(2000), 16, 700>>) =>
                 (m = [protein_g |-> 112, fat_g |-> 67, carb_g |-> 238])

\* C7 witness: protein and fat calories exceed the total and carb_g is 0
Wit_C7 ==
    /\ Returned("macro_split")
    /\ 7 * call.args[1] < 4 * call.args[2] * call.args[3] * (KU \div 10)
    /\ call.args[1] > 0
    /\ call.ret.carb_g = 0

\* C8: the protein ratio of a run is 1.6 for lose and gain and 1.2 for
\* maintain, and protein_g is round(ratio x weight), whatever the other
\* inputs
Thm_C8 ==
    submitted =>
        LET ratio == IF form.goal \in {"lose", "gain"} THEN 16 ELSE 12
        IN  /\ out.protein_g_per_kg = ratio
            /\ 2 * Abs(PU * DU * out.macros.protein_g - ratio * form.weight) <= PU * DU

\* C8 witness: a gain run at 70 kg has protein_g 112
Wit_C8 ==
    /\ submitted
    /\ form.goal = "gain"
    /\ form.weight = 700
    /\ out.macros.protein_g = 112

Cex_C10 ==
    Returned("sample_meal_plan") =>
        LET C == call.args[1]
            plan == call.ret
            sum == plan.Breakfast + plan.Lunch + plan.Snack + plan.Dinner
        IN  /\ plan.Breakfast = (20 * C) \div 100
            /\ plan.Lunch = (30 * C) \div 100
            /\ plan.Snack = (15 * C) \div 100
            /\ plan.Dinner = (35 * C) \div 100
            /\ sum <= C
            /\ sum > C - 4
====
